---- MODULE Spec2Model ----
(***************************************************************************)
(* Hybrid retrieval of book-mate: src/search/hybrid.py (FusionRetriever),  *)
(* and the layers that call it.                                            *)
(*                                                                         *)
(* The specifications share the variables below.                           *)
(*   SpecFusion  the two fusion functions (weighted_fusion, rrf_fusion)    *)
(*               applied to bounded result lists;                          *)
(*   Spec        one FusionRetriever instance with its lexical index in    *)
(*               memory, the lexical index file, the vector index, and the *)
(*               operations id_search and build_index (SpecDet,            *)
(*               SpecRebuild, SpecEmpty, SpecRecover and SpecArgs start it *)
(*               in particular states or restrict its operations);         *)
(*   SpecConc    two threads inside id_search of one instance;             *)
(*   SpecSearch  search_book_content (flows/book_query.py);                *)
(*   SpecAgent   the tool-call loop of BookMateAgent.chat over the         *)
(*               search_book tool of the MCP server;                       *)
(*   SpecIngest  the delete handlers of the ingest tab;                    *)
(*   SpecChat    respond, submit_feedback and clear of the chat tab.       *)
(*                                                                         *)
(* Scores are Python floats in the source.  They are modelled as exact     *)
(* fractions <<num, den>>; for the alphas and list lengths used here the   *)
(* float computation orders every pair of scores exactly as the fractions  *)
(* do (0.0, 0.5 and 1.0 are exact, and no two scores within the bounds     *)
(* differ by less than a rounding error or tie only in one arithmetic).    *)
(***************************************************************************)
EXTENDS Integers, Sequences, FiniteSets, TLC

VARIABLES
    alpha,          \* FusionRetriever.alpha, as a numerator over AlphaDen
    bm25,           \* FusionRetriever.bm25: the lexical index in memory
    vec,            \* FusionRetriever.vec: the vector index
    file,           \* the lexical index file at bm25_index_path
    ret,            \* outcome of the last operation on the retriever
    probe,          \* arguments of the id_search call observed twice
    memo,           \* what the first call with the probe arguments returned
    bm25_results,   \* argument of the fusion function under test
    embed_results,  \* argument of the fusion function under test
    topk,           \* argument of the fusion function under test
    fused,          \* which fusion ran last, and what it returned
    pc,             \* concurrent id_search calls: the statement each caller is at
    frame,          \* concurrent id_search calls: each call's arguments and locals
    scoresOf,       \* concurrent id_search calls: the scores dict of each call
    loads,          \* how often load_bm25_index has read the file
    search,         \* search_book_content: the books of the store and the last call
    agent,          \* BookMateAgent.chat: the handling of the last tool call
    ingest,         \* the delete controls of the ingest tab and the library
    chat            \* the chat tab: query_id_map, the sessions and the feedback stored

vars == <<alpha, bm25, vec, file, ret, probe, memo,
          bm25_results, embed_results, topk, fused,
          pc, frame, scoresOf, loads, search, agent, ingest, chat>>

retrieverVars == <<alpha, bm25, vec, file, ret, probe, memo>>
fusionVars    == <<bm25_results, embed_results, topk, fused>>
callVars      == <<pc, frame, scoresOf, loads>>

appVars       == <<search, agent, ingest, chat>>

\* what the operations of one part of the program leave alone
notRetriever == <<fusionVars, callVars, appVars>>
notFusion    == <<retrieverVars, callVars, appVars>>
notCalls     == <<fusionVars, appVars>>

---------------------------------------------------------------------------
(* Bounds *)

MaxListLen == 3     \* longest result list handed to a fusion function
MaxTopK    == 3     \* largest topk handed to a fusion function (besides 7)
MaxRank    == 2     \* longest ranking an index holds for a query
MaxK       == 2     \* largest topk passed to id_search

(* Program constants *)

AlphaDen    == 10   \* alpha = alpha / AlphaDen
DefaultAlpha == 7   \* alpha=0.7
DefaultTopK == 7    \* topk=7, k=7
RRF_C       == 60   \* c=60

Alphas == {0, 5, DefaultAlpha, AlphaDen}

\* the alphas the retriever of Spec is constructed with
RetrieverAlphas == {0, DefaultAlpha}

ChunkIds == {"A", "B", "C", "D"}

Range(s) == { s[i] : i \in 1..Len(s) }
NoRepeat(s) == \A i, j \in 1..Len(s) : i # j => s[i] # s[j]

Min(a, b) == IF a < b THEN a ELSE b
Max(a, b) == IF a < b THEN b ELSE a

\* seq[:k] of Python, for any integer k
PySliceTo(seq, k) ==
    IF k >= 0 THEN SubSeq(seq, 1, Min(k, Len(seq)))
              ELSE SubSeq(seq, 1, Max(0, Len(seq) + k))

\* a chunk as the fusion sees it: a dict with an "id"
Chunk(cid) == [id |-> cid]

\* the result lists an index can return: chunks of distinct ids
ResultLists(ids, maxLen) ==
    { s \in UNION { [1..n -> ids] : n \in 0..maxLen } :
        \A i, j \in 1..Len(s) : i # j => s[i] # s[j] }

ChunksOf(idSeq) == [i \in 1..Len(idSeq) |-> Chunk(idSeq[i])]
IdsOf(chunks)   == [i \in 1..Len(chunks) |-> chunks[i].id]

---------------------------------------------------------------------------
(* Float scores as exact fractions <<num, den>>, den > 0 *)

Zero == <<0, 1>>
FracAdd(a, b)  == <<a[1] * b[2] + b[1] * a[2], a[2] * b[2]>>
FracLess(a, b) == a[1] * b[2] < b[1] * a[2]

(* defaultdict(float): a dict in insertion order, as a sequence of items *)

DictHas(d, key) == \E i \in 1..Len(d) : d[i].key = key
DictPos(d, key) == CHOOSE i \in 1..Len(d) : d[i].key = key

\* d[key] += val
DictAdd(d, key, val) ==
    IF DictHas(d, key)
    THEN [d EXCEPT ![DictPos(d, key)].val = FracAdd(@, val)]
    ELSE Append(d, [key |-> key, val |-> val])

\* sorted(d.items(), key=lambda x: -x[1]): stable, descending by value
InsertStable(acc, x) ==
    LET p == Cardinality({ i \in 1..Len(acc) : ~FracLess(acc[i].val, x.val) })
    IN  SubSeq(acc, 1, p) \o <<x>> \o SubSeq(acc, p + 1, Len(acc))

RECURSIVE SortFold(_, _)
SortFold(acc, items) ==
    IF items = <<>> THEN acc
    ELSE SortFold(InsertStable(acc, Head(items)), Tail(items))

SortedDesc(d) == SortFold(<<>>, d)

Keys(items) == [i \in 1..Len(items) |-> items[i].key]

---------------------------------------------------------------------------
(* FusionRetriever.weighted_fusion *)

\* for rank, c in enumerate(results, start=1): scores[c["id"]] += w * (1.0 / rank)
\* with the weight w = wnum / AlphaDen
RECURSIVE AccumWeighted(_, _, _, _)
AccumWeighted(scores, results, rank, wnum) ==
    IF rank > Len(results) THEN scores
    ELSE AccumWeighted(DictAdd(scores, results[rank].id, <<wnum, AlphaDen * rank>>),
                       results, rank + 1, wnum)

\* the slice [:topk] forgotten
weighted_fusion_nocut(a, bl, el, k) ==
    LET s1 == AccumWeighted(<<>>, bl, 1, a)
        s2 == AccumWeighted(s1, el, 1, AlphaDen - a)
    IN  Keys(SortedDesc(s2))

\* the two lists scored separately, never merged by id
weighted_fusion_nomerge(a, bl, el, k) ==
    LET s1 == AccumWeighted(<<>>, bl, 1, a)
        s2 == AccumWeighted(<<>>, el, 1, AlphaDen - a)
    IN  Keys(PySliceTo(SortedDesc(s1 \o s2), k))

\* the weights of the two lists exchanged
weighted_fusion_swapped(a, bl, el, k) ==
    LET s1 == AccumWeighted(<<>>, bl, 1, AlphaDen - a)
        s2 == AccumWeighted(s1, el, 1, a)
    IN  Keys(PySliceTo(SortedDesc(s2), k))

\* ranks counted from 2: one position too many in every term
weighted_fusion_shifted(a, bl, el, k) ==
    LET s1 == AccumWeighted(<<>>, <<Chunk("#")>> \o bl, 1, a)
        s2 == AccumWeighted(s1, <<Chunk("#")>> \o el, 1, AlphaDen - a)
    IN  Keys(PySliceTo(SelectSeq(SortedDesc(s2), LAMBDA x : x.key # "#"), k))

\* the vector list enumerated before the lexical list
weighted_fusion_vecfirst(a, bl, el, k) ==
    LET s1 == AccumWeighted(<<>>, el, 1, AlphaDen - a)
        s2 == AccumWeighted(s1, bl, 1, a)
    IN  Keys(PySliceTo(SortedDesc(s2), k))

\* an unstable sort: of equal scores, the id inserted last comes first
InsertFirst(acc, x) ==
    LET p == Cardinality({ i \in 1..Len(acc) : FracLess(x.val, acc[i].val) })
    IN  SubSeq(acc, 1, p) \o <<x>> \o SubSeq(acc, p + 1, Len(acc))

RECURSIVE SortFoldFirst(_, _)
SortFoldFirst(acc, items) ==
    IF items = <<>> THEN acc
    ELSE SortFoldFirst(InsertFirst(acc, Head(items)), Tail(items))

weighted_fusion_unstable(a, bl, el, k) ==
    LET s1 == AccumWeighted(<<>>, bl, 1, a)
        s2 == AccumWeighted(s1, el, 1, AlphaDen - a)
    IN  Keys(PySliceTo(SortFoldFirst(<<>>, s2), k))

weighted_fusion(a, bl, el, k) ==
    LET s1 == AccumWeighted(<<>>, bl, 1, a)
        s2 == AccumWeighted(s1, el, 1, AlphaDen - a)
    IN  Keys(PySliceTo(SortedDesc(s2), k))

(* FusionRetriever.rrf_fusion *)

\* for rank, chunk in enumerate(results, start=1): ranks[chunk["id"]] += 1.0 / (c + rank)
RECURSIVE AccumRrf(_, _, _, _)
AccumRrf(ranks, results, rank, c) ==
    IF rank > Len(results) THEN ranks
    ELSE AccumRrf(DictAdd(ranks, results[rank].id, <<1, c + rank>>),
                  results, rank + 1, c)

\* the reciprocal ranks weighted by alpha and 1 - alpha
RECURSIVE AccumRrfWeighted(_, _, _, _, _)
AccumRrfWeighted(ranks, results, rank, c, wnum) ==
    IF rank > Len(results) THEN ranks
    ELSE AccumRrfWeighted(DictAdd(ranks, results[rank].id, <<wnum, AlphaDen * (c + rank)>>),
                          results, rank + 1, c, wnum)

rrf_fusion_weighted(bl, el, k, c) ==
    LET r1 == AccumRrfWeighted(<<>>, bl, 1, c, alpha)
        r2 == AccumRrfWeighted(r1, el, 1, c, AlphaDen - alpha)
    IN  Keys(PySliceTo(SortedDesc(r2), k))

rrf_fusion(bl, el, k, c) ==
    LET r1 == AccumRrf(<<>>, bl, 1, c)
        r2 == AccumRrf(r1, el, 1, c)
    IN  Keys(PySliceTo(SortedDesc(r2), k))

---------------------------------------------------------------------------
(* The two sub-indexes (src/search/bm25.py and src/search/vec.py).         *)
(* An index answers a query with a ranking of chunk ids; search returns    *)
(* the first topk chunks of it.                                            *)

Query == {"q1", "q2"}

Reverse(s) == [i \in 1..Len(s) |-> s[Len(s) + 1 - i]]

\* the malformed query: the sub-indexes rank for it as for any other string
EmptyQuery == ""

\* rankings per query of one index: q2 ranks the chunks q1 finds the other way round
RankOf(r) == [q \in Query \cup {EmptyQuery} |-> IF q = "q2" THEN Reverse(r) ELSE r]

\* the chunks of the corpora the indexes of Spec are built from
IndexIds == {"A", "B", "C"}

Rankings == ResultLists(IndexIds, MaxRank)

\* BM25Retriever(): nothing indexed, N = 0
EmptyIndex == [N |-> 0, rank |-> RankOf(<<>>)]

\* a lexical index over a corpus (N chunks)
LexIndexes == {EmptyIndex} \cup { [N |-> Cardinality(IndexIds), rank |-> RankOf(r)] : r \in Rankings }

VecIndexes == { RankOf(r) : r \in Rankings }

\* the file at bm25_index_path: absent, or the pickled state of an index
NoFile      == [exists |-> FALSE, index |-> EmptyIndex]
FileOf(idx) == [exists |-> TRUE, index |-> idx]
Files       == {NoFile} \cup { FileOf(l) : l \in LexIndexes }

\* BM25Retriever.search: empty if N == 0, else the topk best chunks
BM25Search(index, query, k) ==
    IF index.N = 0 THEN <<>> ELSE PySliceTo(ChunksOf(index.rank[query]), k)

\* the vector store cannot be reached: every search of it fails
VecDown == [down |-> TRUE]

VecSearchRaises(index) == index = VecDown

\* SemanticRetriever.search: the topk nearest chunks
VecSearch(index, query, k) ==
    IF VecSearchRaises(index) THEN <<>> ELSE PySliceTo(ChunksOf(index[query]), k)

\* BM25Retriever.load_index: FileNotFoundError if the file is absent
LoadRaises(f) == ~f.exists
LoadIndex(f)  == f.index

\* BM25Retriever.save_index: the file holds the index in memory
SaveIndex(index) == FileOf(index)

---------------------------------------------------------------------------
(* FusionRetriever.id_search on the instance self = [alpha, bm25, vec, file]: *)
(* the lexical index it leaves in memory, the exception it raises ("none"  *)
(* if it returns), the ids it returns and the sub-index calls it made.     *)

\* if use_bm25 and self.bm25.N == 0: the load is attempted
Attempt(self, use_bm25) == use_bm25 /\ self.bm25.N = 0

\* the lexical index in memory after the (attempted) load
AfterLoad(self, attempt) ==
    IF attempt /\ ~LoadRaises(self.file) THEN LoadIndex(self.file) ELSE self.bm25

LoadCall(self, attempt) ==
    IF ~attempt THEN <<>>
    ELSE IF LoadRaises(self.file) THEN <<"load_index:FileNotFoundError">>
    ELSE <<"load_index">>

\* the searches and the fusion: vec.search(query, lim), then either the first
\* k vector ids or bm25.search(query, lim) and weighted_fusion
Searches(self, index, query, k, lim, use, loadCall) ==
    IF VecSearchRaises(self.vec)
    THEN [bm25 |-> index, raised |-> "QueryError", mode |-> "none", ids |-> <<>>,
          calls |-> loadCall \o <<"vec.search">>, limits |-> <<lim>>]
    ELSE IF ~use
    THEN [bm25 |-> index, raised |-> "none", mode |-> "vector",
          ids |-> IdsOf(PySliceTo(VecSearch(self.vec, query, lim), k)),
          calls |-> loadCall \o <<"vec.search">>, limits |-> <<lim>>]
    ELSE [bm25 |-> index, raised |-> "none", mode |-> "fused",
          ids |-> weighted_fusion(self.alpha, BM25Search(index, query, lim),
                                  VecSearch(self.vec, query, lim), k),
          calls |-> loadCall \o <<"vec.search", "bm25.search">>,
          limits |-> <<lim, lim>>]

\* a missing index file answered with no results
id_search_empty(self, query, k, use_bm25) ==
    LET attempt  == Attempt(self, use_bm25)
        notFound == attempt /\ LoadRaises(self.file)
    IN  IF notFound
        THEN [bm25 |-> self.bm25, raised |-> "none", mode |-> "vector", ids |-> <<>>,
              calls |-> LoadCall(self, attempt), limits |-> <<>>]
        ELSE Searches(self, AfterLoad(self, attempt), query, k, k * 2, use_bm25,
                      LoadCall(self, attempt))

\* FileNotFoundError not caught
id_search_noexcept(self, query, k, use_bm25) ==
    LET attempt  == Attempt(self, use_bm25)
        notFound == attempt /\ LoadRaises(self.file)
    IN  IF notFound
        THEN [bm25 |-> self.bm25, raised |-> "FileNotFoundError", mode |-> "none",
              ids |-> <<>>, calls |-> LoadCall(self, attempt), limits |-> <<>>]
        ELSE Searches(self, AfterLoad(self, attempt), query, k, k * 2, use_bm25,
                      LoadCall(self, attempt))

\* the call that loads the index searches the vector index only
id_search_lazyvector(self, query, k, use_bm25) ==
    LET attempt == Attempt(self, use_bm25)
        use     == IF attempt THEN FALSE ELSE use_bm25
    IN  Searches(self, AfterLoad(self, attempt), query, k, k * 2, use,
                 LoadCall(self, attempt))

\* a failed vector search answered with the lexical results alone
id_search_lexical(self, query, k, use_bm25) ==
    LET attempt  == Attempt(self, use_bm25)
        notFound == attempt /\ LoadRaises(self.file)
        use      == IF notFound THEN FALSE ELSE use_bm25
        index    == AfterLoad(self, attempt)
    IN  IF VecSearchRaises(self.vec)
        THEN [bm25 |-> index, raised |-> "none", mode |-> "fused",
              ids |-> IF use THEN weighted_fusion(self.alpha, BM25Search(index, query, k * 2), <<>>, k)
                      ELSE <<>>,
              calls |-> LoadCall(self, attempt) \o <<"vec.search", "bm25.search">>,
              limits |-> <<k * 2, k * 2>>]
        ELSE Searches(self, index, query, k, k * 2, use, LoadCall(self, attempt))

\* the index file read on every call with use_bm25
id_search_reload(self, query, k, use_bm25) ==
    LET notFound == use_bm25 /\ LoadRaises(self.file)
        use      == IF notFound THEN FALSE ELSE use_bm25
    IN  Searches(self, AfterLoad(self, use_bm25), query, k, k * 2, use,
                 LoadCall(self, use_bm25))

\* the index loaded whenever N == 0, use_bm25 or not
id_search_eagerload(self, query, k, use_bm25) ==
    LET attempt  == self.bm25.N = 0
        notFound == attempt /\ LoadRaises(self.file)
        use      == IF notFound THEN FALSE ELSE use_bm25
    IN  Searches(self, AfterLoad(self, attempt), query, k, k * 2, use,
                 LoadCall(self, attempt))

\* the searches asked for topk results, not topk * 2
id_search_narrow(self, query, k, use_bm25) ==
    LET attempt  == Attempt(self, use_bm25)
        notFound == attempt /\ LoadRaises(self.file)
        use      == IF notFound THEN FALSE ELSE use_bm25
    IN  Searches(self, AfterLoad(self, attempt), query, k, k, use,
                 LoadCall(self, attempt))

\* a failed load remembered: the index in memory marked as loaded, with no chunks ranked
id_search_sticky(self, query, k, use_bm25) ==
    LET attempt  == Attempt(self, use_bm25)
        notFound == attempt /\ LoadRaises(self.file)
        use      == IF notFound THEN FALSE ELSE use_bm25
        index    == IF notFound THEN [N |-> 1, rank |-> RankOf(<<>>)] ELSE AfterLoad(self, attempt)
    IN  Searches(self, index, query, k, k * 2, use, LoadCall(self, attempt))

id_search(self, query, k, use_bm25) ==
    LET attempt  == Attempt(self, use_bm25)
        notFound == attempt /\ LoadRaises(self.file)
        use      == IF notFound THEN FALSE ELSE use_bm25
    IN  Searches(self, AfterLoad(self, attempt), query, k, k * 2, use,
                 LoadCall(self, attempt))

Self == [alpha |-> alpha, bm25 |-> bm25, vec |-> vec, file |-> file]

\* a new FusionRetriever on the same disk and vector store: nothing in memory
Fresh == [Self EXCEPT !.bm25 = EmptyIndex]

Args == [query : Query, topk : 1..MaxK, use_bm25 : BOOLEAN]

NoRet == [op |-> "init"]

\* no call is observed
NoProbe == [query |-> "none", topk |-> 0, use_bm25 |-> FALSE]

IdSearch(query, k, use_bm25) ==
    \E r \in {id_search(Self, query, k, use_bm25)},
       args \in {[query |-> query, topk |-> k, use_bm25 |-> use_bm25]} :
        /\ bm25' = r.bm25
        /\ ret' = [op |-> "id_search", args |-> args, N0 |-> bm25.N,
                   raised |-> r.raised, mode |-> r.mode, ids |-> r.ids,
                   calls |-> r.calls, limits |-> r.limits,
                   kept |-> (r.bm25 = bm25)]
        /\ memo' = IF args = probe /\ memo = <<>> /\ r.raised = "none"
                   THEN <<[ids |-> r.ids, N0 |-> bm25.N]>> ELSE memo
        /\ UNCHANGED <<alpha, vec, file, probe>>
        /\ UNCHANGED notRetriever

(* FusionRetriever.build_index(chunks): the chunks are given by the indexes *)
(* they produce.  fail names the step that raises.                          *)

Corpora == { [lex |-> l, vec |-> RankOf(Reverse(l.rank["q1"]))] : l \in LexIndexes }

\* self.bm25.build_index(chunks); self.bm25.save_index(path);
\* self.vec.build_index(chunks): the step named by fail raises and ends the call
BuildSteps == <<"bm25.build_index", "save_index", "vec.build_index">>

StepsUntil(fail) ==
    IF fail = "none" THEN BuildSteps
    ELSE SubSeq(BuildSteps, 1, CHOOSE i \in 1..Len(BuildSteps) : BuildSteps[i] = fail)

\* the file written from the index that was in memory before the lexical build
build_index_saveold(self, corpus, fail) ==
    [bm25 |-> corpus.lex,
     file |-> IF fail = "save_index" THEN self.file ELSE SaveIndex(self.bm25),
     vec  |-> IF fail = "none" THEN corpus.vec ELSE self.vec,
     raised |-> fail,
     calls |-> StepsUntil(fail)]

\* the lexical build skipped when an index is already in memory
build_index_skiploaded(self, corpus, fail) ==
    LET built == IF self.bm25.N = 0 THEN corpus.lex ELSE self.bm25
    IN  [bm25 |-> built,
         file |-> IF fail = "save_index" THEN self.file ELSE SaveIndex(built),
         vec  |-> IF fail = "none" THEN corpus.vec ELSE self.vec,
         raised |-> fail,
         calls |-> StepsUntil(fail)]

build_index(self, corpus, fail) ==
    [bm25 |-> corpus.lex,
     file |-> IF fail = "save_index" THEN self.file ELSE SaveIndex(corpus.lex),
     vec  |-> IF fail = "none" THEN corpus.vec ELSE self.vec,
     raised |-> fail,
     calls |-> StepsUntil(fail)]

\* what the lexical index in memory held when build_index was called
Prior(corpus) ==
    IF bm25.N = 0 THEN "empty" ELSE IF bm25 = corpus.lex THEN "same" ELSE "other"

BuildIndex(corpus, fail) ==
    \E r \in {build_index(Self, corpus, fail)} :
        /\ bm25' = r.bm25
        /\ file' = r.file
        /\ vec'  = r.vec
        /\ ret'  = [op |-> "build_index", raised |-> r.raised, calls |-> r.calls,
                    file_kept |-> (r.file = file), prior |-> Prior(corpus),
                    corpus |-> corpus]
        /\ memo' = <<>>
        /\ UNCHANGED <<alpha, probe>>
        /\ UNCHANGED notRetriever

NoFusion == [op |-> "none"]

Failures == {"none", "save_index", "vec.build_index"}

\* the callers of the concurrent id_search calls
Callers == {"c1", "c2"}

NoFrame == [args |-> NoProbe, use_bm25 |-> FALSE, embed_results |-> <<>>,
            bm25_results |-> <<>>, raced |-> FALSE, ids |-> <<>>]

\* no id_search call is running
CallsIdle ==
    /\ pc = [t \in Callers |-> "idle"]
    /\ frame = [t \in Callers |-> NoFrame]
    /\ scoresOf = [t \in Callers |-> <<>>]
    /\ loads = 0

\* the flows, the agent and the two tabs of the UI are not running
NoApp == [op |-> "off"]

AppsIdle ==
    /\ search = NoApp
    /\ agent = NoApp
    /\ ingest = NoApp
    /\ chat = NoApp

\* a new FusionRetriever over whatever the disk and the vector store hold
InitRetriever ==
    /\ alpha \in RetrieverAlphas
    /\ bm25 = EmptyIndex
    /\ vec \in VecIndexes \cup {VecDown}
    /\ file \in Files
    /\ ret = NoRet
    /\ memo = <<>>

Init ==
    /\ InitRetriever
    /\ probe = NoProbe
    /\ bm25_results = <<>>
    /\ embed_results = <<>>
    /\ topk = DefaultTopK
    /\ fused = NoFusion
    /\ CallsIdle
    /\ AppsIdle

Next ==
    \/ \E q \in Query, k \in 1..MaxK, b \in BOOLEAN : IdSearch(q, k, b)
    \/ \E c \in Corpora, f \in Failures : BuildIndex(c, f)

Spec == Init /\ [][Next]_vars

(* Repeated queries against an index that does not change: the index is    *)
(* built at most once, before the first query, and the build persists the  *)
(* lexical index (a build whose save_index fails is part of Spec).         *)

InitDet ==
    /\ InitRetriever
    /\ probe \in { a \in Args : a.query = "q1" }
    /\ bm25_results = <<>>
    /\ embed_results = <<>>
    /\ topk = DefaultTopK
    /\ fused = NoFusion
    /\ CallsIdle
    /\ AppsIdle

BuildFirst(corpus, fail) ==
    /\ ret.op = "init"
    /\ BuildIndex(corpus, fail)

NextDet ==
    \/ \E q \in Query, k \in 1..MaxK, b \in BOOLEAN : IdSearch(q, k, b)
    \/ \E c \in Corpora, f \in Failures \ {"save_index"} : BuildFirst(c, f)

SpecDet == InitDet /\ [][NextDet]_vars

(* Builds and rebuilds, one after the other, by a deployment that starts    *)
(* with the default alpha, no index file and an empty vector collection.    *)

InitRebuild ==
    /\ Init
    /\ alpha = DefaultAlpha
    /\ file = NoFile
    /\ vec = RankOf(<<>>)

NextRebuild == \E c \in Corpora, f \in Failures : BuildIndex(c, f)

SpecRebuild == InitRebuild /\ [][NextRebuild]_vars

(* Queries against an empty lexical index: nothing built in memory, and    *)
(* the index file absent or holding an index of no chunks; every alpha,     *)
(* the vector store with any result list.                                   *)

InitEmpty ==
    /\ alpha \in Alphas
    /\ bm25 = EmptyIndex
    /\ vec \in { RankOf(r) : r \in ResultLists(ChunkIds, MaxListLen) }
    /\ file \in {NoFile, FileOf(EmptyIndex)}
    /\ ret = NoRet
    /\ memo = <<>>
    /\ probe = NoProbe
    /\ bm25_results = <<>>
    /\ embed_results = <<>>
    /\ topk = DefaultTopK
    /\ fused = NoFusion
    /\ CallsIdle
    /\ AppsIdle

NextEmpty == \E q \in Query, k \in 1..MaxK, b \in BOOLEAN : IdSearch(q, k, b)

SpecEmpty == InitEmpty /\ [][NextEmpty]_vars

(* Queries by one instance while another FusionRetriever (the ingestion    *)
(* process) runs build_index on the same bm25_index_path and vector store:  *)
(* the file and the vector index change, this instance's memory does not.   *)

OtherBuildIndex(corpus) ==
    \E r \in {build_index(Fresh, corpus, "none")} :
        /\ file' = r.file
        /\ vec'  = r.vec
        /\ file' # file
        /\ UNCHANGED <<alpha, bm25, ret, probe, memo>>
        /\ UNCHANGED notRetriever

NextRecover ==
    \/ \E q \in Query, k \in 1..MaxK, b \in BOOLEAN : IdSearch(q, k, b)
    \/ \E c \in Corpora : OtherBuildIndex(c)

SpecRecover == InitRebuild /\ [][NextRecover]_vars

(* Calls of id_search with any arguments, malformed ones included: the      *)
(* empty query string and topk = 0.                                         *)

NextArgs ==
    \E q \in Query \cup {EmptyQuery}, k \in 0..MaxK, b \in BOOLEAN : IdSearch(q, k, b)

SpecArgs == Init /\ [][NextArgs]_vars

---------------------------------------------------------------------------
(* Concurrent id_search calls on one FusionRetriever instance: each caller  *)
(* runs id_search statement by statement, and the statements of different   *)
(* callers interleave.  alpha, bm25, vec and file are the instance's; the   *)
(* frame of a caller holds its arguments and local variables.               *)

\* the scores dict of weighted_fusion kept on the instance, one for all calls
ScoresOwner_instance(t) == "c1"

\* scores = defaultdict(float): a local of each weighted_fusion call
ScoresOwner(t) == t

Call(t, query, k, use_bm25) ==
    /\ pc[t] = "idle"
    /\ pc' = [pc EXCEPT ![t] = "guard"]
    /\ frame' = [frame EXCEPT ![t] = [NoFrame EXCEPT
                    !.args = [query |-> query, topk |-> k, use_bm25 |-> use_bm25],
                    !.use_bm25 = use_bm25]]
    /\ UNCHANGED <<scoresOf, loads>>
    /\ UNCHANGED <<retrieverVars, notCalls>>

\* if use_bm25 and self.bm25.N == 0:
Guard(t) ==
    /\ pc[t] = "guard"
    /\ pc' = [pc EXCEPT ![t] = IF Attempt(Self, frame[t].use_bm25) THEN "load" ELSE "vec.search"]
    /\ UNCHANGED <<frame, scoresOf, loads>>
    /\ UNCHANGED <<retrieverVars, notCalls>>

\* self.load_bm25_index(): FileNotFoundError downgrades this call; otherwise
\* the file is read and load_index starts to restore N and the statistics
\* (N may be in place before the statistics are)
LoadBegin(t) ==
    /\ pc[t] = "load"
    /\ IF LoadRaises(file)
       THEN /\ pc' = [pc EXCEPT ![t] = "vec.search"]
            /\ frame' = [frame EXCEPT ![t].use_bm25 = FALSE]
            /\ UNCHANGED <<bm25, loads>>
       ELSE /\ pc' = [pc EXCEPT ![t] = "loading"]
            /\ loads' = loads + 1
            /\ bm25' \in {bm25, [bm25 EXCEPT !.N = LoadIndex(file).N]}
            /\ UNCHANGED frame
    /\ UNCHANGED <<alpha, vec, file, ret, probe, memo, scoresOf>>
    /\ UNCHANGED notCalls

\* load_index returns: the index in memory is the file's
LoadEnd(t) ==
    /\ pc[t] = "loading"
    /\ bm25' = LoadIndex(file)
    /\ pc' = [pc EXCEPT ![t] = "vec.search"]
    /\ UNCHANGED <<alpha, vec, file, ret, probe, memo, frame, scoresOf, loads>>
    /\ UNCHANGED notCalls

\* embed_results = self.vec.search(query, topk * 2)
VecSearchStep(t) ==
    /\ pc[t] = "vec.search"
    /\ frame' = [frame EXCEPT ![t].embed_results =
                    VecSearch(vec, frame[t].args.query, frame[t].args.topk * 2)]
    /\ pc' = [pc EXCEPT ![t] = "branch"]
    /\ UNCHANGED <<scoresOf, loads>>
    /\ UNCHANGED <<retrieverVars, notCalls>>

\* if not use_bm25: return [c["id"] for c in embed_results[:topk]]
Branch(t) ==
    /\ pc[t] = "branch"
    /\ IF ~frame[t].use_bm25
       THEN /\ frame' = [frame EXCEPT ![t].ids =
                            IdsOf(PySliceTo(frame[t].embed_results, frame[t].args.topk))]
            /\ pc' = [pc EXCEPT ![t] = "done"]
       ELSE /\ pc' = [pc EXCEPT ![t] = "bm25.search"]
            /\ UNCHANGED frame
    /\ UNCHANGED <<scoresOf, loads>>
    /\ UNCHANGED <<retrieverVars, notCalls>>

\* bm25_results = self.bm25.search(query, topk * 2)
Bm25SearchStep(t) ==
    /\ pc[t] = "bm25.search"
    /\ frame' = [frame EXCEPT
                    ![t].bm25_results = BM25Search(bm25, frame[t].args.query, frame[t].args.topk * 2),
                    ![t].raced = \E u \in Callers \ {t} : pc[u] = "loading"]
    /\ pc' = [pc EXCEPT ![t] = "scores.bm25"]
    /\ UNCHANGED <<scoresOf, loads>>
    /\ UNCHANGED <<retrieverVars, notCalls>>

\* scores = defaultdict(float); the loop over bm25_results
ScoreBm25(t) ==
    /\ pc[t] = "scores.bm25"
    /\ scoresOf' = [scoresOf EXCEPT ![ScoresOwner(t)] =
                       AccumWeighted(<<>>, frame[t].bm25_results, 1, alpha)]
    /\ pc' = [pc EXCEPT ![t] = "scores.embed"]
    /\ UNCHANGED <<frame, loads>>
    /\ UNCHANGED <<retrieverVars, notCalls>>

\* the loop over embed_results
ScoreEmbed(t) ==
    /\ pc[t] = "scores.embed"
    /\ scoresOf' = [scoresOf EXCEPT ![ScoresOwner(t)] =
                       AccumWeighted(scoresOf[ScoresOwner(t)], frame[t].embed_results, 1,
                                     AlphaDen - alpha)]
    /\ pc' = [pc EXCEPT ![t] = "sorted"]
    /\ UNCHANGED <<frame, loads>>
    /\ UNCHANGED <<retrieverVars, notCalls>>

\* return [cid for cid, _ in sorted(scores.items(), key=lambda x: -x[1])[:topk]]
Sorted(t) ==
    /\ pc[t] = "sorted"
    /\ frame' = [frame EXCEPT ![t].ids =
                    Keys(PySliceTo(SortedDesc(scoresOf[ScoresOwner(t)]), frame[t].args.topk))]
    /\ pc' = [pc EXCEPT ![t] = "done"]
    /\ UNCHANGED <<scoresOf, loads>>
    /\ UNCHANGED <<retrieverVars, notCalls>>

\* an instance with the index of a corpus in memory and in the file, or with
\* nothing in memory and the file present or absent
InitConc ==
    /\ alpha = DefaultAlpha
    /\ \E c \in Corpora :
          /\ vec = c.vec
          /\ \/ bm25 = c.lex /\ file = FileOf(c.lex)
             \/ bm25 = EmptyIndex /\ file \in {NoFile, FileOf(c.lex)}
    /\ ret = NoRet
    /\ probe = NoProbe
    /\ memo = <<>>
    /\ bm25_results = <<>>
    /\ embed_results = <<>>
    /\ topk = DefaultTopK
    /\ fused = NoFusion
    /\ CallsIdle
    /\ AppsIdle

NextConc ==
    \E t \in Callers :
        \/ \E q \in Query, k \in 1..MaxK, b \in BOOLEAN : Call(t, q, k, b)
        \/ Guard(t)
        \/ LoadBegin(t)
        \/ LoadEnd(t)
        \/ VecSearchStep(t)
        \/ Branch(t)
        \/ Bm25SearchStep(t)
        \/ ScoreBm25(t)
        \/ ScoreEmbed(t)
        \/ Sorted(t)

SpecConc == InitConc /\ [][NextConc]_vars

---------------------------------------------------------------------------
(* The fusion functions on their own *)

TopKs == (1..MaxTopK) \cup {DefaultTopK}

FusionLists == { ChunksOf(s) : s \in ResultLists(ChunkIds, MaxListLen) }

InitFusion ==
    /\ alpha \in Alphas
    /\ bm25 = EmptyIndex
    /\ vec = RankOf(<<>>)
    /\ file = NoFile
    /\ ret = NoRet
    /\ probe = NoProbe
    /\ memo = <<>>
    /\ bm25_results \in FusionLists
    /\ embed_results \in FusionLists
    /\ topk \in TopKs
    /\ fused = NoFusion
    /\ CallsIdle
    /\ AppsIdle

WeightedFusion ==
    /\ fused' = [op |-> "weighted_fusion",
                 ids |-> weighted_fusion(alpha, bm25_results, embed_results, topk)]
    /\ UNCHANGED <<bm25_results, embed_results, topk>>
    /\ UNCHANGED notFusion

RrfFusion ==
    /\ fused' = [op |-> "rrf_fusion",
                 ids |-> rrf_fusion(bm25_results, embed_results, topk, RRF_C)]
    /\ UNCHANGED <<bm25_results, embed_results, topk>>
    /\ UNCHANGED notFusion

NextFusion == WeightedFusion \/ RrfFusion

SpecFusion == InitFusion /\ [][NextFusion]_vars

---------------------------------------------------------------------------
(* search_book_content (flows/book_query.py) over the chunks that          *)
(* GutenbergReader gives their ids.  Strings are sequences of characters.   *)

MaxLimit == 2       \* largest limit passed to search_book_content (besides 5)

DefaultLimit == 5   \* limit: int = 5
TextLimit == 800    \* text[:800]

Digit(n) == <<"0", "1", "2", "3", "4", "5", "6", "7", "8", "9">>[n + 1]

\* f"{self.slug}_{sid+1:02d}_{cid+1:03d}_{hash_id}" for sid, cid < 9
ChunkIdOf(slug, sid, cid, hash_id) ==
    slug \o <<"_">> \o <<"0", Digit(sid + 1)>> \o <<"_">> \o <<"0", "0", Digit(cid + 1)>>
         \o <<"_">> \o hash_id

\* str.startswith
StartsWith(str, prefix) ==
    Len(str) >= Len(prefix) /\ SubSeq(str, 1, Len(prefix)) = prefix

\* two slugs the ingest form accepts: 2-20 chars of lowercase letters, digits, - and _
Slugs == {<<"a", "b">>, <<"a", "b", "_", "c">>}

\* the chunks behind the ids of the indexes: the book they were read from,
\* their section and place in it (as enumerate counts them), hash and text
Chunks ==
    [A |-> [slug |-> <<"a", "b">>, sid |-> 0, cid |-> 0, hash_id |-> <<"e", "1">>,
            text |-> <<"lorem">>],
     B |-> [slug |-> <<"a", "b">>, sid |-> 0, cid |-> 1, hash_id |-> <<"e", "2">>,
            text |-> <<"Found", "2", "results">>],
     C |-> [slug |-> <<"a", "b", "_", "c">>, sid |-> 0, cid |-> 0, hash_id |-> <<"e", "3">>,
            text |-> <<"ipsum">>]]

\* chunk["id"] and chunk["text"] of the chunk an index names
FullId(cid) == ChunkIdOf(Chunks[cid].slug, Chunks[cid].sid, Chunks[cid].cid, Chunks[cid].hash_id)
TextOf(cid) == Chunks[cid].text

\* text[:800] + "..." if len(text) > 800 else text
Truncated(text) ==
    IF Len(text) > TextLimit THEN SubSeq(text, 1, TextLimit) \o <<"...">> ELSE text

\* the orders in which get_chunks_by_ids may return the chunks of ids
Orders(ids) ==
    { s \in [1..Len(ids) -> Range(ids)] : \A i, j \in 1..Len(ids) : i # j => s[i] # s[j] }

\* the loop over chunks_full: append the chunks of the book, stop at limit
RECURSIVE FilterLoop(_, _, _, _, _)
FilterLoop(chunks_full, i, book_identifier, limit, chunks_with_text) ==
    IF i > Len(chunks_full) THEN chunks_with_text
    ELSE IF StartsWith(FullId(chunks_full[i]), book_identifier \o <<"_">>)
         THEN LET appended == Append(chunks_with_text,
                                     [id |-> chunks_full[i], text |-> Truncated(TextOf(chunks_full[i]))])
              IN  IF Len(appended) >= limit THEN appended
                  ELSE FilterLoop(chunks_full, i + 1, book_identifier, limit, appended)
         ELSE FilterLoop(chunks_full, i + 1, book_identifier, limit, chunks_with_text)

\* the two return statements with an error field
ErrorResult(query, book_identifier, error) ==
    [query |-> query, book |-> book_identifier, chunk_ids |-> <<>>, chunks |-> <<>>,
     num_results |-> 0, error |-> error]

Result(query, book_identifier, chunks_with_text) ==
    [query |-> query, book |-> book_identifier,
     chunk_ids |-> [i \in 1..Len(chunks_with_text) |-> chunks_with_text[i].id],
     chunks |-> chunks_with_text,
     num_results |-> Len(chunks_with_text),
     error |-> "none"]

\* the break at limit forgotten
search_book_content_nobreak(books, self, query, book_identifier, limit, found, chunks_full, fail) ==
    IF fail = "PgresStore" THEN ErrorResult(query, book_identifier, "PgresStore")
    ELSE IF book_identifier \notin books THEN ErrorResult(query, book_identifier, "Book not found")
    ELSE IF found.raised # "none" THEN ErrorResult(query, book_identifier, found.raised)
    ELSE IF fail = "get_chunks_by_ids" THEN ErrorResult(query, book_identifier, "get_chunks_by_ids")
    ELSE Result(query, book_identifier,
                FilterLoop(chunks_full, 1, book_identifier, Len(chunks_full) + 1, <<>>))

\* search_book_content(query, book_identifier, limit): found is what
\* FusionRetriever().id_search(query, topk=limit * 3) did, chunks_full what
\* get_chunks_by_ids returned; fail names the call that raises
search_book_content(books, self, query, book_identifier, limit, found, chunks_full, fail) ==
    IF fail = "PgresStore" THEN ErrorResult(query, book_identifier, "PgresStore")
    ELSE IF book_identifier \notin books THEN ErrorResult(query, book_identifier, "Book not found")
    ELSE IF found.raised # "none" THEN ErrorResult(query, book_identifier, found.raised)
    ELSE IF fail = "get_chunks_by_ids" THEN ErrorResult(query, book_identifier, "get_chunks_by_ids")
    ELSE Result(query, book_identifier, FilterLoop(chunks_full, 1, book_identifier, limit, <<>>))

Limits == (0..MaxLimit) \cup {DefaultLimit}

FlowFailures == {"none", "PgresStore", "get_chunks_by_ids"}

SearchBookContent(query, book_identifier, limit, fail) ==
    \E found \in {id_search(Fresh, query, limit * 3, TRUE)} :
        \E chunks_full \in Orders(found.ids) :
            /\ search' = [op |-> "search_book_content", books |-> search.books,
                          args |-> [query |-> query, book_identifier |-> book_identifier,
                                    limit |-> limit],
                          found |-> found.ids,
                          fail |-> fail,
                          result |-> search_book_content(search.books, Fresh, query,
                                         book_identifier, limit, found, chunks_full, fail)]
            /\ UNCHANGED <<agent, ingest, chat>>
            /\ UNCHANGED <<retrieverVars, fusionVars, callVars>>

\* the retriever's file and vector store hold the indexes of a corpus or are
\* missing, and the store knows some of the books
InitSearch ==
    /\ alpha = DefaultAlpha
    /\ bm25 = EmptyIndex
    /\ \E c \in Corpora :
          /\ vec \in {c.vec, VecDown}
          /\ file \in {NoFile, FileOf(c.lex)}
    /\ ret = NoRet
    /\ probe = NoProbe
    /\ memo = <<>>
    /\ bm25_results = <<>>
    /\ embed_results = <<>>
    /\ topk = DefaultTopK
    /\ fused = NoFusion
    /\ CallsIdle
    /\ search \in { [op |-> "init", books |-> b] : b \in SUBSET Slugs }
    /\ agent = NoApp
    /\ ingest = NoApp
    /\ chat = NoApp

NextSearch ==
    \E q \in Query, b \in Slugs, l \in Limits, f \in FlowFailures : SearchBookContent(q, b, l, f)

SpecSearch == InitSearch /\ [][NextSearch]_vars

---------------------------------------------------------------------------
(* The search_book tool of the MCP server (mcp_server/book_tools.py) and    *)
(* the tool-call loop of BookMateAgent.chat (mcp_client/agent.py).  A text  *)
(* is the sequence of its words.                                            *)

\* "".join of the characters of a slug
RECURSIVE Str(_)
Str(chars) == IF chars = <<>> THEN "" ELSE Head(chars) \o Str(Tail(chars))

\* f"Passage {i}:\n{chunk['text']}\n\n---\n\n" for each chunk, i from 1
RECURSIVE Passages(_, _)
Passages(chunks, i) ==
    IF i > Len(chunks) THEN <<>>
    ELSE <<"Passage", Digit(i) \o ":">> \o chunks[i].text \o <<"---">> \o Passages(chunks, i + 1)

\* call_tool("search_book", arguments) once search_book_content returned result
call_tool(result) ==
    IF result.error # "none" THEN <<"Error:", result.error>>
    ELSE IF result.num_results = 0
         THEN <<"No", "results", "found", "for", result.query, "in", "book", Str(result.book)>>
         ELSE <<"Search", "results", "for", result.query, "in", Str(result.book)>>
                  \o Passages(result.chunks, 1)

\* call_tool("get_book_summary", arguments): result["summary"] or "No summary available"
SummaryTexts == {<<"summary">>, <<"No", "summary", "available">>}

\* the words \d+ matches, with int() of them
Numeral == ("0" :> 0) @@ ("1" :> 1) @@ ("2" :> 2) @@ ("10" :> 10)

\* re.search(r"Found (\d+) results?", tool_result) matches at word i
FoundAt(tool_result, i) ==
    /\ i + 2 <= Len(tool_result)
    /\ tool_result[i] = "Found"
    /\ tool_result[i + 1] \in DOMAIN Numeral
    /\ tool_result[i + 2] \in {"result", "results"}

\* words in tool_result
Contains(tool_result, words) ==
    \E i \in 1..Len(tool_result) :
        /\ i + Len(words) - 1 <= Len(tool_result)
        /\ SubSeq(tool_result, i, i + Len(words) - 1) = words

\* BookMateAgent._extract_search_results_count
extract_search_results_count(tool_result) ==
    IF \E i \in 1..Len(tool_result) : FoundAt(tool_result, i)
    THEN Numeral[tool_result[(CHOOSE i \in 1..Len(tool_result) :
                                 /\ FoundAt(tool_result, i)
                                 /\ \A j \in 1..(i - 1) : ~FoundAt(tool_result, j)) + 1]]
    ELSE IF \/ Contains(tool_result, <<"No", "results", "found">>)
            \/ Contains(tool_result, <<"0", "results">>)
            \/ Contains(tool_result, <<"10", "results">>)
         THEN 0
         ELSE -1

\* get_citation_reminder()
CitationReminder == <<"[cite]">>

\* the local results_count of chat: unassigned until a search is parsed
Unbound  == [bound |-> FALSE, value |-> 0]
Bound(n) == [bound |-> TRUE, value |-> n]

NoRetryInfo == [retried |-> FALSE]

\* retry_args = function_args.copy(); retry_args["query"] = rephrased_query
RetryArgs(function_args, rephrased_query) == [function_args EXCEPT !.query = rephrased_query]

\* the handling of one tool call retrying whenever the count is not positive
chat_tool_call_unknown(results_count, function_name, function_args, rephrased_query, tool_result, retry_result) ==
    LET searched == function_name = "search_book" /\ function_args.query # EmptyQuery
        count == IF searched THEN Bound(extract_search_results_count(tool_result))
                 ELSE results_count
        retried == searched /\ count.value <= 0
        retry_count == extract_search_results_count(retry_result)
        final == IF retried /\ retry_count > 0 THEN retry_result ELSE tool_result
        raised == function_name = "search_book" /\ ~count.bound
    IN  [calls |-> IF retried THEN <<function_args, RetryArgs(function_args, rephrased_query)>>
                   ELSE <<function_args>>,
         results_count |-> count,
         retry_info |-> IF retried
                        THEN [retried |-> TRUE, original_query |-> function_args.query,
                              rephrased_query |-> rephrased_query,
                              retry_results |-> retry_count]
                        ELSE NoRetryInfo,
         fallback_to_context |-> retried /\ ~(retry_count > 0),
         raised |-> IF raised THEN "UnboundLocalError" ELSE "none",
         tool_content |-> IF raised THEN <<>>
                          ELSE IF function_name = "search_book" /\ count.value > 0
                               THEN final \o CitationReminder
                               ELSE final]

\* the body of `for tool_call in assistant_message.tool_calls` once the
\* arguments are translated: tool_result is what call_mcp_tool returned for
\* function_args, retry_result what it returns for the retry's arguments
chat_tool_call(results_count, function_name, function_args, rephrased_query, tool_result, retry_result) ==
    LET searched == function_name = "search_book" /\ function_args.query # EmptyQuery
        count == IF searched THEN Bound(extract_search_results_count(tool_result))
                 ELSE results_count
        retried == searched /\ count.value = 0
        retry_count == extract_search_results_count(retry_result)
        final == IF retried /\ retry_count > 0 THEN retry_result ELSE tool_result
        raised == function_name = "search_book" /\ ~count.bound
    IN  [calls |-> IF retried THEN <<function_args, RetryArgs(function_args, rephrased_query)>>
                   ELSE <<function_args>>,
         results_count |-> count,
         retry_info |-> IF retried
                        THEN [retried |-> TRUE, original_query |-> function_args.query,
                              rephrased_query |-> rephrased_query,
                              retry_results |-> retry_count]
                        ELSE NoRetryInfo,
         fallback_to_context |-> retried /\ ~(retry_count > 0),
         raised |-> IF raised THEN "UnboundLocalError" ELSE "none",
         tool_content |-> IF raised THEN <<>>
                          ELSE IF function_name = "search_book" /\ count.value > 0
                               THEN final \o CitationReminder
                               ELSE final]

\* the title the library shows for the book of slug "ab", and str.lower on it
Title == <<"O", "d">>
LowerChar == ("A" :> "a") @@ ("B" :> "b") @@ ("O" :> "o")
Lower(str) == [i \in 1..Len(str) |-> IF str[i] \in DOMAIN LowerChar THEN LowerChar[str[i]]
                                     ELSE str[i]]

\* self.title_to_slug: {title.lower(): slug} of the books in the library
title_to_slug(books) ==
    IF <<"a", "b">> \in books THEN (Lower(Title) :> <<"a", "b">>) ELSE << >>

\* function_args["book_identifier"] after the title lookup
Translated(books, book_id) ==
    IF Lower(book_id) \in DOMAIN title_to_slug(books)
    THEN title_to_slug(books)[Lower(book_id)]
    ELSE book_id

BookIds == Slugs \cup {Title}
ToolLimits == {1, DefaultLimit}
McpFailures == {"none", "session", "get_chunks_by_ids"}

\* what the server computed for a search_book call and the text
\* call_mcp_tool returned for it: found is what id_search did for the
\* arguments, chunks_full what get_chunks_by_ids answered, fail what raised
McpSearch(books, arguments, found, chunks_full, fail) ==
    LET result == search_book_content(books, Fresh, arguments.query, arguments.book_identifier,
                                      arguments.limit, found, chunks_full, fail)
    IN  IF fail = "session"
        THEN [served |-> FALSE, text |-> <<"Error", "calling", "tool", "search_book">>]
        ELSE [served |-> TRUE, result |-> result, text |-> call_tool(result)]

\* chat() begins: no tool call handled yet
ChatBegin ==
    /\ agent.op = "init"
    /\ agent' = [op |-> "chat", books |-> agent.books, results_count |-> Unbound]
    /\ UNCHANGED <<search, ingest, chat>>
    /\ UNCHANGED <<retrieverVars, fusionVars, callVars>>

\* one search_book tool call of the assistant message
SearchToolCall(query, book_id, limit, rephrased_query) ==
    /\ agent.op = "chat"
    /\ LET function_args == [query |-> query,
                             book_identifier |-> Translated(agent.books, book_id),
                             limit |-> limit]
           retry_args == RetryArgs(function_args, rephrased_query)
       IN  \E found \in {id_search(Fresh, query, limit * 3, TRUE)},
              retry_found \in {id_search(Fresh, rephrased_query, limit * 3, TRUE)} :
             \E o \in Orders(found.ids), ro \in Orders(retry_found.ids),
                fail \in McpFailures, retry_fail \in McpFailures :
               \E first \in {McpSearch(agent.books, function_args, found, o, fail)},
                  retry \in {McpSearch(agent.books, retry_args, retry_found, ro, retry_fail)} :
                   \E r \in {chat_tool_call(agent.results_count, "search_book", function_args,
                                            rephrased_query, first.text, retry.text)} :
                       agent' = [op |-> "tool_call", books |-> agent.books,
                                 function_name |-> "search_book",
                                 rephrased_query |-> rephrased_query,
                                 answers |-> IF Len(r.calls) = 2 THEN <<first, retry>>
                                             ELSE <<first>>,
                                 calls |-> r.calls,
                                 results_count |-> r.results_count,
                                 retry_info |-> r.retry_info,
                                 fallback_to_context |-> r.fallback_to_context,
                                 raised |-> r.raised,
                                 tool_content |-> r.tool_content]
    /\ UNCHANGED <<search, ingest, chat>>
    /\ UNCHANGED <<retrieverVars, fusionVars, callVars>>

\* a get_book_summary tool call of the assistant message
SummaryToolCall(book_id, text) ==
    /\ agent.op = "chat"
    /\ LET function_args == [query |-> EmptyQuery,
                             book_identifier |-> Translated(agent.books, book_id),
                             limit |-> DefaultLimit]
           r == chat_tool_call(agent.results_count, "get_book_summary", function_args,
                               EmptyQuery, text, text)
       IN  agent' = [op |-> "tool_call", books |-> agent.books,
                     function_name |-> "get_book_summary",
                     rephrased_query |-> EmptyQuery,
                     answers |-> <<[served |-> TRUE, text |-> text]>>,
                     calls |-> r.calls,
                     results_count |-> r.results_count,
                     retry_info |-> r.retry_info,
                     fallback_to_context |-> r.fallback_to_context,
                     raised |-> r.raised,
                     tool_content |-> r.tool_content]
    /\ UNCHANGED <<search, ingest, chat>>
    /\ UNCHANGED <<retrieverVars, fusionVars, callVars>>

\* the loop goes on to the next tool call of the message
NextToolCall ==
    /\ agent.op = "tool_call"
    /\ agent.raised = "none"
    /\ agent' = [op |-> "chat", books |-> agent.books, results_count |-> agent.results_count]
    /\ UNCHANGED <<search, ingest, chat>>
    /\ UNCHANGED <<retrieverVars, fusionVars, callVars>>

\* chat() returns: after the last tool call, or from its except clause
ChatReturn ==
    /\ agent.op = "tool_call"
    /\ agent' = [op |-> "init", books |-> agent.books]
    /\ UNCHANGED <<search, ingest, chat>>
    /\ UNCHANGED <<retrieverVars, fusionVars, callVars>>

\* what the vector store ranks for q1 and for q2: at most one chunk each
Neighbours == {<<>>} \cup { <<c>> : c \in IndexIds }

PerQuery(r1, r2) == [q \in Query \cup {EmptyQuery} |-> IF q = "q2" THEN r2 ELSE r1]

\* the vector store answers each query with its own chunks, the index file
\* is missing or holds the lexical index of q1's chunks, and the library
\* holds some books
InitAgent ==
    /\ alpha = DefaultAlpha
    /\ bm25 = EmptyIndex
    /\ \E r1 \in Neighbours, r2 \in Neighbours :
          /\ vec = PerQuery(r1, r2)
          /\ file \in {NoFile, FileOf([N |-> Cardinality(IndexIds), rank |-> PerQuery(r1, r1)])}
    /\ ret = NoRet
    /\ probe = NoProbe
    /\ memo = <<>>
    /\ bm25_results = <<>>
    /\ embed_results = <<>>
    /\ topk = DefaultTopK
    /\ fused = NoFusion
    /\ CallsIdle
    /\ search = NoApp
    /\ agent \in { [op |-> "init", books |-> b] : b \in {Slugs, {<<"a", "b">>}} }
    /\ ingest = NoApp
    /\ chat = NoApp

NextAgent ==
    \/ ChatBegin
    \/ \E q \in Query \cup {EmptyQuery}, b \in BookIds, l \in ToolLimits, rq \in Query :
           SearchToolCall(q, b, l, rq)
    \/ \E b \in BookIds, t \in SummaryTexts : SummaryToolCall(b, t)
    \/ NextToolCall
    \/ ChatReturn

SpecAgent == InitAgent /\ [][NextAgent]_vars

---------------------------------------------------------------------------
(* The delete handlers of the ingest tab (ui/ingest.py): the slug box, the  *)
(* pending slug kept in gr.State and the confirm button of each browser     *)
(* session, over the library all sessions share.                            *)

Sessions == {"s1", "s2"}

\* str.strip() of spaces
RECURSIVE LStrip(_)
LStrip(str) == IF str # <<>> /\ Head(str) = " " THEN LStrip(Tail(str)) ELSE str
Strip(str) == Reverse(LStrip(Reverse(LStrip(str))))

\* what a user may have in the slug box
SlugTexts == {<<>>, <<" ">>, <<"a", "b">>, <<" ", "A", "b", " ">>, <<"a", "b", "_", "c">>,
              <<"a">>}

\* delete_pending_slug: None or a slug
NonePending == [some |-> FALSE, slug |-> <<>>]
Pending(slug) == [some |-> TRUE, slug |-> slug]

\* `not pending_slug`
Falsy(pending_slug) == ~pending_slug.some \/ pending_slug.slug = <<>>

\* delete_book(slug) on the library
delete_book(library, slug) == library \ {slug}

\* request_delete_confirmation(slug) over get_available_books()
request_delete_confirmation(library, slug) ==
    LET stripped == Lower(Strip(slug))
    IN  IF stripped = <<>>
        THEN [output |-> "[ERROR] Please enter a book slug", pending |-> NonePending,
              visible |-> FALSE]
        ELSE IF stripped \notin library
             THEN [output |-> "[ERROR] Book not found", pending |-> NonePending,
                   visible |-> FALSE]
             ELSE [output |-> "[CONFIRM?]", pending |-> Pending(stripped), visible |-> TRUE]

\* confirm_delete leaving the pending slug in place
confirm_delete_keep(library, pending_slug) ==
    IF Falsy(pending_slug)
    THEN [output |-> "[ERROR] No deletion pending", deleted |-> NonePending,
          library |-> library, clear_input |-> TRUE, pending |-> NonePending,
          visible |-> FALSE]
    ELSE [output |-> "Deleting book", deleted |-> Pending(pending_slug.slug),
          library |-> delete_book(library, pending_slug.slug), clear_input |-> TRUE,
          pending |-> pending_slug, visible |-> FALSE]

\* confirm_delete(pending_slug): deleted is the slug delete_book was called with
confirm_delete(library, pending_slug) ==
    IF Falsy(pending_slug)
    THEN [output |-> "[ERROR] No deletion pending", deleted |-> NonePending,
          library |-> library, clear_input |-> TRUE, pending |-> NonePending,
          visible |-> FALSE]
    ELSE [output |-> "Deleting book", deleted |-> Pending(pending_slug.slug),
          library |-> delete_book(library, pending_slug.slug), clear_input |-> TRUE,
          pending |-> NonePending, visible |-> FALSE]

\* the fields of a session
SessionInit == [input |-> <<>>, pending |-> NonePending, visible |-> FALSE,
                output |-> "", echo |-> FALSE]

\* delete_slug_input.change: the user edits the slug box of session s
RequestDeleteConfirmation(s, text) ==
    /\ text # ingest.of[s].input
    /\ LET r == request_delete_confirmation(ingest.library, text)
       IN  ingest' = [op |-> "request_delete_confirmation",
                      session |-> s,
                      library |-> ingest.library,
                      deleted |-> NonePending,
                      found |-> r.pending,
                      of |-> [ingest.of EXCEPT ![s] =
                                 [input |-> text, pending |-> r.pending, visible |-> r.visible,
                                  output |-> r.output, echo |-> FALSE]]]
    /\ UNCHANGED <<search, agent, chat>>
    /\ UNCHANGED <<retrieverVars, fusionVars, callVars>>

\* delete_btn.click in session s: the handler also empties the slug box
ConfirmDelete(s) ==
    /\ LET r == confirm_delete(ingest.library, ingest.of[s].pending)
       IN  ingest' = [op |-> "confirm_delete",
                      session |-> s,
                      library |-> r.library,
                      deleted |-> r.deleted,
                      found |-> NonePending,
                      of |-> [ingest.of EXCEPT ![s] =
                                 [input |-> <<>>, pending |-> r.pending, visible |-> r.visible,
                                  output |-> r.output,
                                  echo |-> (ingest.of[s].input # <<>>)]]]
    /\ UNCHANGED <<search, agent, chat>>
    /\ UNCHANGED <<retrieverVars, fusionVars, callVars>>

\* delete_slug_input.change fired by the handler's own update of the slug box
ChangeAfterConfirm(s) ==
    /\ ingest.of[s].echo
    /\ LET r == request_delete_confirmation(ingest.library, ingest.of[s].input)
       IN  ingest' = [op |-> "request_delete_confirmation",
                      session |-> s,
                      library |-> ingest.library,
                      deleted |-> NonePending,
                      found |-> r.pending,
                      of |-> [ingest.of EXCEPT ![s] =
                                 [input |-> ingest.of[s].input, pending |-> r.pending,
                                  visible |-> r.visible, output |-> r.output,
                                  echo |-> FALSE]]]
    /\ UNCHANGED <<search, agent, chat>>
    /\ UNCHANGED <<retrieverVars, fusionVars, callVars>>

\* a book is ingested under slug
IngestBook(slug) ==
    /\ slug \notin ingest.library
    /\ ingest' = [ingest EXCEPT !.op = "ingest_book", !.library = @ \cup {slug},
                                !.deleted = NonePending, !.found = NonePending]
    /\ UNCHANGED <<search, agent, chat>>
    /\ UNCHANGED <<retrieverVars, fusionVars, callVars>>

\* the retriever is not used by the handlers of the UI tabs
RetrieverUnused ==
    /\ alpha = DefaultAlpha
    /\ bm25 = EmptyIndex
    /\ vec = RankOf(<<>>)
    /\ file = NoFile
    /\ ret = NoRet
    /\ probe = NoProbe
    /\ memo = <<>>

InitIngest ==
    /\ RetrieverUnused
    /\ bm25_results = <<>>
    /\ embed_results = <<>>
    /\ topk = DefaultTopK
    /\ fused = NoFusion
    /\ CallsIdle
    /\ search = NoApp
    /\ agent = NoApp
    /\ ingest \in { [op |-> "init", session |-> "s1", library |-> b, deleted |-> NonePending,
                     found |-> NonePending, of |-> [s \in Sessions |-> SessionInit]] :
                    b \in SUBSET Slugs }
    /\ chat = NoApp

NextIngest ==
    \/ \E s \in Sessions, t \in SlugTexts : RequestDeleteConfirmation(s, t)
    \/ \E s \in Sessions : ConfirmDelete(s)
    \/ \E s \in Sessions : ChangeAfterConfirm(s)
    \/ \E b \in Slugs : IngestBook(b)

SpecIngest == InitIngest /\ [][NextIngest]_vars

---------------------------------------------------------------------------
(* The chat tab (ui/chat.py): the chat history of each browser session,     *)
(* the module's query_id_map and the feedback handed to the collector.      *)

MaxTurns == 2       \* longest chat history of a session
MaxQueries == 3     \* queries answered in a run

\* no query id: ui.chat answered without one
NoQueryId == 0

\* rating_radio: nothing chosen, or a rating
NoRating == "None"
Ratings == {NoRating, "1", "5"}

Messages == {<<>>, <<" ">>, <<"h", "i">>}

\* respond(message, chat_history, ...): query_id is what ui.chat returned;
\* a turn of the history is kept as the id of the query that answered it
respond(query_id_map, message, chat_history, query_id) ==
    IF Strip(message) = <<>>
    THEN [chat_history |-> chat_history, query_id_map |-> query_id_map, asked |-> FALSE]
    ELSE LET appended == Append(chat_history, query_id)
         IN  [chat_history |-> appended,
              query_id_map |-> IF query_id # NoQueryId
                               THEN ((Len(appended) - 1) :> query_id) @@ query_id_map
                               ELSE query_id_map,
              asked |-> TRUE]

\* submit_feedback(rating, chat_history): the query id update_user_feedback
\* is called with, NoQueryId when it is not called
submit_feedback(query_id_map, rating, chat_history) ==
    IF chat_history = <<>> \/ rating = NoRating THEN NoQueryId
    ELSE LET last_idx == Len(chat_history) - 1
         IN  IF last_idx \in DOMAIN query_id_map THEN query_id_map[last_idx] ELSE NoQueryId

NoFeedback == [query_id |-> NoQueryId, rating |-> NoRating]

\* msg.submit / send_btn.click in session s; ui.chat answers with a new
\* query id, or with none when answered is FALSE
Respond(s, message, answered) ==
    /\ Len(chat.chat_history[s]) < MaxTurns
    /\ chat.issued < MaxQueries
    /\ LET query_id == IF answered THEN chat.issued + 1 ELSE NoQueryId
           r == respond(chat.query_id_map, message, chat.chat_history[s], query_id)
       IN  chat' = [op |-> "respond",
                    session |-> s,
                    issued |-> IF r.asked /\ answered THEN chat.issued + 1 ELSE chat.issued,
                    query_id_map |-> r.query_id_map,
                    chat_history |-> [chat.chat_history EXCEPT ![s] = r.chat_history],
                    cleared |-> chat.cleared,
                    feedback |-> NoFeedback]
    /\ UNCHANGED <<search, agent, ingest>>
    /\ UNCHANGED <<retrieverVars, fusionVars, callVars>>

\* submit_rating_btn.click in session s
SubmitFeedback(s, rating) ==
    /\ LET query_id == submit_feedback(chat.query_id_map, rating, chat.chat_history[s])
       IN  chat' = [chat EXCEPT !.op = "submit_feedback",
                                !.session = s,
                                !.feedback = IF query_id = NoQueryId THEN NoFeedback
                                             ELSE [query_id |-> query_id, rating |-> rating]]
    /\ UNCHANGED <<search, agent, ingest>>
    /\ UNCHANGED <<retrieverVars, fusionVars, callVars>>

\* clear_btn.click in session s: the chatbot is set to []
Clear(s) ==
    /\ chat.chat_history[s] # <<>>
    /\ chat' = [chat EXCEPT !.op = "clear",
                            !.session = s,
                            !.chat_history[s] = <<>>,
                            !.cleared = @ \cup (Range(chat.chat_history[s]) \ {NoQueryId}),
                            !.feedback = NoFeedback]
    /\ UNCHANGED <<search, agent, ingest>>
    /\ UNCHANGED <<retrieverVars, fusionVars, callVars>>

InitChat ==
    /\ RetrieverUnused
    /\ bm25_results = <<>>
    /\ embed_results = <<>>
    /\ topk = DefaultTopK
    /\ fused = NoFusion
    /\ CallsIdle
    /\ search = NoApp
    /\ agent = NoApp
    /\ ingest = NoApp
    /\ chat = [op |-> "init", session |-> "s1", issued |-> 0, query_id_map |-> << >>,
               chat_history |-> [s \in Sessions |-> <<>>], cleared |-> {},
               feedback |-> NoFeedback]

NextChat ==
    \/ \E s \in Sessions, m \in Messages, a \in BOOLEAN : Respond(s, m, a)
    \/ \E s \in Sessions, r \in Ratings : SubmitFeedback(s, r)
    \/ \E s \in Sessions : Clear(s)

SpecChat == InitChat /\ [][NextChat]_vars

---------------------------------------------------------------------------
(* Properties *)


IsSearch == ret.op = "id_search"

\* the two lists the last id_search worked on (id_search leaves vec and file
\* alone, and bm25 is the index its lexical search ran against)
LastEmbed   == VecSearch(vec, ret.args.query, ret.args.topk * 2)
LastLexical == BM25Search(bm25, ret.args.query, ret.args.topk * 2)

\* C1: id_search(q, k) returns at most k chunk ids, for every query, every
\* k >= 1, both values of use_bm25 and any contents of the two result lists.
C1_TopKBound == IsSearch => Len(ret.ids) <= ret.args.topk

\* a fused call whose two over-fetched lists hold more than k distinct ids
C1_Witness ==
    /\ IsSearch /\ ret.mode = "fused"
    /\ Cardinality(Range(IdsOf(LastLexical)) \cup Range(IdsOf(LastEmbed))) > ret.args.topk
    /\ Len(ret.ids) = ret.args.topk

\* C2: the list id_search returns holds each chunk id at most once, in the
\* fused path and in the vector-only path.
C2_NoDuplicates == IsSearch => NoRepeat(ret.ids)

\* a fused call that returns an id found in both lists
C2_Witness ==
    /\ IsSearch /\ ret.mode = "fused"
    /\ \E c \in Range(ret.ids) :
          c \in Range(IdsOf(LastLexical)) /\ c \in Range(IdsOf(LastEmbed))

\* the score the fusion formula gives an id: w / rank in each list that
\* holds it, 0 for a list that does not
Term(wnum, results, cid) ==
    IF \E i \in 1..Len(results) : results[i].id = cid
    THEN <<wnum, AlphaDen * (CHOOSE i \in 1..Len(results) : results[i].id = cid)>>
    ELSE Zero

WeightedScore(cid) ==
    FracAdd(Term(alpha, bm25_results, cid), Term(AlphaDen - alpha, embed_results, cid))

RrfTerm(results, cid) ==
    IF \E i \in 1..Len(results) : results[i].id = cid
    THEN <<1, RRF_C + (CHOOSE i \in 1..Len(results) : results[i].id = cid)>>
    ELSE Zero

RrfScore(cid) == FracAdd(RrfTerm(bm25_results, cid), RrfTerm(embed_results, cid))

Candidates == Range(IdsOf(bm25_results)) \cup Range(IdsOf(embed_results))

\* ids is the k best candidates under Score, best first
TopByScore(ids, k, Score(_)) ==
    /\ NoRepeat(ids)
    /\ Range(ids) \subseteq Candidates
    /\ Len(ids) = Min(k, Cardinality(Candidates))
    /\ \A i, j \in 1..Len(ids) : i < j => ~FracLess(Score(ids[i]), Score(ids[j]))
    /\ \A c \in Candidates \ Range(ids) :
          \A i \in 1..Len(ids) : ~FracLess(Score(ids[i]), Score(c))

Scenario ==
    /\ IdsOf(bm25_results) = <<"A", "B", "C">>
    /\ IdsOf(embed_results) = <<"B", "D", "A">>

\* C3: weighted_fusion orders the ids by descending
\* alpha / rank_bm25 + (1 - alpha) / rank_vec (1-based ranks, 0 for a list
\* without the id) and keeps the topk best; lexical [A, B, C], vector
\* [B, D, A], alpha = 0.5, topk = 2 give [B, A].
C3_WeightedOrder ==
    fused.op = "weighted_fusion" =>
        /\ TopByScore(fused.ids, topk, WeightedScore)
        /\ (Scenario /\ alpha = 5 /\ topk = 2) => fused.ids = <<"B", "A">>

C3_Witness ==
    /\ fused.op = "weighted_fusion" /\ Scenario /\ alpha = 5 /\ topk = 2
    /\ fused.ids = <<"B", "A">>

\* what id_search(q, k, use_bm25 = false) returns in the current state
VectorOnly == id_search(Self, ret.args.query, ret.args.topk, FALSE)

\* C4 as stated: whenever the lexical index file does not exist,
\* id_search(q, k, use_bm25 = true) returns the list that
\* id_search(q, k, use_bm25 = false) returns.
C4_Original ==
    (IsSearch /\ ret.args.use_bm25 /\ ~file.exists) =>
        (ret.raised = VectorOnly.raised /\ ret.ids = VectorOnly.ids)

\* C4 amended: if the lexical index is not in memory (N == 0) and its file
\* does not exist, id_search(q, k, use_bm25 = true) returns the list that
\* id_search(q, k, use_bm25 = false) returns.
C4_Fallback ==
    (IsSearch /\ ret.args.use_bm25 /\ ret.N0 = 0 /\ ~file.exists) =>
        (ret.raised = VectorOnly.raised /\ ret.ids = VectorOnly.ids)

C4_Witness ==
    /\ IsSearch /\ ret.args.use_bm25 /\ ret.N0 = 0 /\ ~file.exists
    /\ Len(ret.ids) >= 2
    /\ ret.ids = VectorOnly.ids

\* C5: id_search(use_bm25 = true) on an index that is not loaded (N == 0)
\* and whose file is absent does not raise: it searches the vector index
\* only and returns the first topk ids of the vector result.
C5_NoRaiseOnMissingFile ==
    (IsSearch /\ ret.args.use_bm25 /\ ret.N0 = 0 /\ ~file.exists) =>
        /\ ret.raised # "FileNotFoundError"
        /\ ret.calls = <<"load_index:FileNotFoundError", "vec.search">>
        /\ ret.raised = "none" =>
              /\ ret.mode = "vector"
              /\ ret.ids = IdsOf(PySliceTo(LastEmbed, ret.args.topk))

C5_Witness ==
    /\ IsSearch /\ ret.args.use_bm25 /\ ret.N0 = 0 /\ ~file.exists
    /\ ret.calls[1] = "load_index:FileNotFoundError"
    /\ ret.raised = "none" /\ ret.ids # <<>>

\* C6: while the lexical index, the vector index and alpha do not change,
\* every id_search call with the probe arguments returns the list the first
\* such call returned, whatever calls ran in between.
C6_Determinism ==
    (IsSearch /\ ret.args = probe /\ memo # <<>> /\ ret.raised = "none") =>
        ret.ids = memo[1].ids

\* the first call loaded the index lazily, a later one ran on the loaded index
C6_Witness ==
    /\ IsSearch /\ ret.args = probe /\ memo # <<>>
    /\ memo[1].N0 = 0 /\ ret.N0 > 0
    /\ ret.mode = "fused" /\ Len(ret.ids) >= 2
    /\ ret.ids = memo[1].ids

\* the ids of xs, then the ids of ys that xs does not hold
Then(xs, ys) ==
    IdsOf(xs) \o IdsOf(SelectSeq(ys, LAMBDA c : c.id \notin Range(IdsOf(xs))))

IsWeighted == fused.op = "weighted_fusion"

\* C7 as stated: with alpha = 1.0 the fused ranking for topk = k is the
\* lexical ranking truncated to k, for every pair of lists.
C7_Original ==
    (IsWeighted /\ alpha = AlphaDen) => fused.ids = IdsOf(PySliceTo(bm25_results, topk))

\* C7 amended: with alpha = 1.0 the fused ranking for topk = k is the lexical
\* ranking followed by the vector list's other ids in vector order, truncated
\* to k: the lexical ranking truncated to k when the lexical list holds k ids.
C7_LexicalFirst ==
    (IsWeighted /\ alpha = AlphaDen) =>
        /\ fused.ids = PySliceTo(Then(bm25_results, embed_results), topk)
        /\ Len(bm25_results) >= topk => fused.ids = IdsOf(PySliceTo(bm25_results, topk))

C7_Witness ==
    /\ IsWeighted /\ alpha = AlphaDen
    /\ Len(bm25_results) >= 1 /\ Len(bm25_results) < topk
    /\ Len(fused.ids) > Len(bm25_results)
    /\ fused.ids = PySliceTo(Then(bm25_results, embed_results), topk)

\* C8 as stated: with alpha = 0.0 the fused ranking for topk = k is the
\* vector ranking truncated to k, for every pair of lists.
C8_Original ==
    (IsWeighted /\ alpha = 0) => fused.ids = IdsOf(PySliceTo(embed_results, topk))

\* C8 amended: with alpha = 0.0 the fused ranking for topk = k is the vector
\* ranking followed by the lexical list's other ids in lexical order,
\* truncated to k: the vector ranking truncated to k when the vector list
\* holds k ids.
C8_VectorFirst ==
    (IsWeighted /\ alpha = 0) =>
        /\ fused.ids = PySliceTo(Then(embed_results, bm25_results), topk)
        /\ Len(embed_results) >= topk => fused.ids = IdsOf(PySliceTo(embed_results, topk))

C8_Witness ==
    /\ IsWeighted /\ alpha = 0
    /\ Len(embed_results) >= 1 /\ Len(embed_results) < topk
    /\ Len(fused.ids) > Len(embed_results)
    /\ fused.ids = PySliceTo(Then(embed_results, bm25_results), topk)

\* C9: rrf_fusion orders the ids by descending sum over the two lists of
\* 1 / (c + rank), without weights and whatever alpha is, and keeps the k
\* best; c = 60, k = 7, lexical [A, B, C] and vector [B, D, A] give
\* [B, A, D, C].
C9_RrfOrder ==
    fused.op = "rrf_fusion" =>
        /\ TopByScore(fused.ids, topk, RrfScore)
        /\ (Scenario /\ topk = DefaultTopK) => fused.ids = <<"B", "A", "D", "C">>

C9_Witness ==
    /\ fused.op = "rrf_fusion" /\ Scenario /\ topk = DefaultTopK /\ alpha # 5
    /\ fused.ids = <<"B", "A", "D", "C">>

\* C10: the fusion strategy is selectable: some configuration of the
\* retriever makes id_search fuse its two result lists with RRF, for every
\* query and topk.
C10_RrfSelectable ==
    \E a \in Alphas :
        \A q \in Query, k \in 1..MaxK :
            LET r == id_search([Self EXCEPT !.alpha = a], q, k, TRUE)
            IN  r.mode = "fused" =>
                  r.ids = rrf_fusion(BM25Search(r.bm25, q, k * 2),
                                     VecSearch(vec, q, k * 2), k, RRF_C)

\* C12: a failure of the vector search propagates to the caller of id_search
\* in both modes: no lexical-only and no empty result is returned instead.
C12_VectorFailurePropagates ==
    (IsSearch /\ VecSearchRaises(vec)) =>
        (ret.raised = "QueryError" /\ ret.ids = <<>> /\ ret.mode = "none")

\* the vector store is down while the lexical index holds results for the query
C12_Witness ==
    /\ IsSearch /\ VecSearchRaises(vec) /\ ret.args.use_bm25
    /\ LastLexical # <<>>
    /\ ret.raised = "QueryError"

IsBuild == ret.op = "build_index"

\* C13: build_index builds both sub-indexes first and only then persists the
\* lexical index: save_index is never called before vec.build_index has
\* completed.
C13_SaveAfterBothBuilds ==
    IsBuild =>
        \A j \in 1..Len(ret.calls) :
            ret.calls[j] = "save_index" =>
                \E i \in 1..(j - 1) :
                    ret.calls[i] = "vec.build_index" /\ ret.raised # "vec.build_index"

\* C14: a build_index that fails at any step leaves the persisted lexical
\* index file as it was before the call.
C14_NoPartialIndex == (IsBuild /\ ret.raised # "none") => ret.file_kept

\* C11: id_search called with an empty query string or a non-positive topk
\* is rejected with InvalidArgument before any index work: no load, no
\* vector search, no lexical search.
C11_RejectsMalformedInput ==
    (IsSearch /\ (ret.args.query = EmptyQuery \/ ret.args.topk <= 0)) =>
        (ret.raised = "InvalidArgument" /\ ret.calls = <<>>)

\* what the caller of id_search sees: the exception or the ordered ids
Outcome(r) == <<r.raised, r.ids>>

SelfNext == [alpha |-> alpha', bm25 |-> bm25', vec |-> vec', file |-> file']

C17_EmptyLexical ==
    (IsSearch /\ bm25.N = 0 /\ ret.raised = "none") =>
        /\ LastLexical = <<>>
        /\ ret.ids = IdsOf(PySliceTo(LastEmbed, ret.args.topk))
        /\ (vec["q1"] = <<"A", "B", "C">> /\ ret.args.query = "q1" /\ ret.args.topk = 2) =>
              ret.ids = <<"A", "B">>

\* the scenario in fused mode with alpha = 1: the file holds an index of no
\* chunks, every vector candidate scores 0 and the order is the sort's
C17_Witness ==
    /\ IsSearch /\ bm25.N = 0 /\ ret.mode = "fused"
    /\ alpha = AlphaDen
    /\ vec["q1"] = <<"A", "B", "C">> /\ ret.args.query = "q1" /\ ret.args.topk = 2
    /\ ret.ids = <<"A", "B">>

\* the calls of load_bm25_index and of the two searches the last id_search made
LoadCalls   == SelectSeq(ret.calls, LAMBDA c : c \in {"load_index", "load_index:FileNotFoundError"})
SearchCalls == SelectSeq(ret.calls, LAMBDA c : c \in {"vec.search", "bm25.search"})

\* C18: id_search attempts the load of the lexical index exactly when
\* use_bm25 is true and N == 0 at the start of the call, and then once; a
\* call that starts with N > 0 makes no load and leaves the index in memory
\* as it is, whatever the file holds by then.
C18_LoadOnlyWhenEmpty ==
    IsSearch =>
        /\ Len(LoadCalls) = (IF ret.args.use_bm25 /\ ret.N0 = 0 THEN 1 ELSE 0)
        /\ ret.N0 > 0 => (ret.kept /\ bm25.N = ret.N0)

\* a fused call on an index in memory while the file holds another index
C18_Witness ==
    /\ IsSearch /\ ret.args.use_bm25 /\ ret.N0 > 0
    /\ file.exists /\ file.index.N > 0 /\ file.index # bm25
    /\ ret.mode = "fused" /\ ret.ids # <<>>

\* the call ends in vector-only mode: use_bm25 false, or the index not in
\* memory and its file missing
VectorOnlyCase == ~ret.args.use_bm25 \/ (ret.N0 = 0 /\ ~file.exists)

\* C19: in vector-only mode id_search returns the ids of the first topk
\* results of the vector index in vector order and makes no lexical search;
\* with use_bm25 = false it makes no load and leaves the lexical index in
\* memory unchanged.
C19_VectorOnlyFrame ==
    (IsSearch /\ VectorOnlyCase) =>
        /\ SearchCalls = <<"vec.search">>
        /\ ret.raised = "none" =>
              /\ ret.mode = "vector"
              /\ ret.ids = PySliceTo(vec[ret.args.query], ret.args.topk)
        /\ ~ret.args.use_bm25 => (LoadCalls = <<>> /\ ret.kept)

\* use_bm25 = false with nothing in memory and a non-empty index in the file:
\* the vector ids are returned and the file is not loaded
C19_Witness ==
    /\ IsSearch /\ ~ret.args.use_bm25 /\ ret.N0 = 0
    /\ file.exists /\ file.index.N > 0
    /\ bm25.N = 0
    /\ ret.ids # <<>> /\ Len(vec[ret.args.query]) > ret.args.topk

\* C20: every id_search runs vec.search once with limit topk * 2; in fused
\* mode it then runs bm25.search once with limit topk * 2, and the result is
\* weighted_fusion of exactly those two lists; in no other mode is there a
\* lexical search.
C20_SearchesOnceOverfetched ==
    IsSearch =>
        /\ SearchCalls = (IF ret.mode = "fused" THEN <<"vec.search", "bm25.search">>
                                                ELSE <<"vec.search">>)
        /\ ret.limits = [i \in 1..Len(SearchCalls) |-> ret.args.topk * 2]
        /\ (ret.raised = "none" /\ ~VectorOnlyCase) =>
              /\ ret.mode = "fused"
              /\ ret.ids = weighted_fusion(alpha, LastLexical, LastEmbed, ret.args.topk)

\* a fused call with topk = 1 whose two searches returned topk * 2 results
\* each, not all of them the same chunks
C20_Witness ==
    /\ IsSearch /\ ret.mode = "fused" /\ ret.args.topk = 1
    /\ Len(LastEmbed) = 2 /\ Len(LastLexical) = 2
    /\ Range(IdsOf(LastEmbed)) # Range(IdsOf(LastLexical))
    /\ Len(ret.ids) = 1

\* when weighted_fusion first meets an id: at its place in the lexical list,
\* or, for an id the lexical list does not hold, after the whole lexical list
\* at its place in the vector list
Place(results, cid) == CHOOSE i \in 1..Len(results) : results[i].id = cid

Encounter(cid) ==
    IF cid \in Range(IdsOf(bm25_results)) THEN Place(bm25_results, cid)
    ELSE Len(bm25_results) + Place(embed_results, cid)

SameScore(c, d) == ~FracLess(WeightedScore(c), WeightedScore(d)) /\ ~FracLess(WeightedScore(d), WeightedScore(c))

\* C21: in weighted_fusion ids of equal fused score are ordered by first
\* encounter, the lexical list enumerated before the vector list: within the
\* result, and between the result and the candidates cut off by topk.
C21_TiesByEncounter ==
    IsWeighted =>
        /\ \A i, j \in 1..Len(fused.ids) :
              (i < j /\ SameScore(fused.ids[i], fused.ids[j])) =>
                  Encounter(fused.ids[i]) < Encounter(fused.ids[j])
        /\ \A c \in Candidates \ Range(fused.ids) :
              \A i \in 1..Len(fused.ids) :
                  SameScore(fused.ids[i], c) => Encounter(fused.ids[i]) < Encounter(c)

\* a lexical-only id precedes a vector-only id of the same non-zero score that
\* the vector list ranks at least as high, and a tie involves an id of both lists
C21_Witness ==
    /\ IsWeighted
    /\ \E i, j \in 1..Len(fused.ids) :
          /\ i < j
          /\ SameScore(fused.ids[i], fused.ids[j])
          /\ FracLess(Zero, WeightedScore(fused.ids[i]))
          /\ fused.ids[i] \notin Range(IdsOf(embed_results))
          /\ fused.ids[j] \notin Range(IdsOf(bm25_results))
          /\ Place(embed_results, fused.ids[j]) <= Place(bm25_results, fused.ids[i])

\* the last id_search was downgraded to vector-only by a missing index file
Downgraded == IsSearch /\ "load_index:FileNotFoundError" \in Range(ret.calls)

\* C22: the downgrade to vector-only lasts for one call.  The failed load
\* leaves N == 0, and the next id_search(use_bm25 = true) attempts the load
\* again: if the file exists by then, that call loads it and returns the
\* fused ranking of the loaded index and the vector index.
C22_DowngradeForOneCall ==
    [][(Downgraded /\ \E q \in Query, k \in 1..MaxK : IdSearch(q, k, TRUE)) =>
          /\ bm25.N = 0
          /\ Len(SelectSeq(ret'.calls, LAMBDA c : c \in {"load_index", "load_index:FileNotFoundError"})) = 1
          /\ (file.exists /\ ret'.raised = "none") =>
                /\ ret'.calls[1] = "load_index"
                /\ ret'.mode = "fused"
                /\ bm25' = LoadIndex(file)
                /\ ret'.ids = weighted_fusion(alpha,
                                  BM25Search(LoadIndex(file), ret'.args.query, ret'.args.topk * 2),
                                  VecSearch(vec, ret'.args.query, ret'.args.topk * 2),
                                  ret'.args.topk)
      ]_vars

\* the file appeared after a downgraded call and the call after it is fused:
\* the index in memory is the file's, loaded by a call that found N == 0, and
\* its lexical results differ from the vector results
C22_Witness ==
    /\ IsSearch /\ ret.args.use_bm25 /\ ret.N0 = 0 /\ ~ret.kept
    /\ ret.mode = "fused"
    /\ file.exists /\ bm25 = file.index
    /\ LastLexical # <<>> /\ LastLexical # LastEmbed

\* what the call of caller t returns when it runs alone on the instance
Alone(t) == id_search(Self, frame[t].args.query, frame[t].args.topk, frame[t].args.use_bm25)

\* the instance was loaded before the calls began
Loaded == bm25.N > 0 /\ loads = 0

\* C23: concurrent id_search calls on a loaded instance do not interfere.
\* Whatever the interleaving of their statements, each call returns the list
\* it returns when it runs alone.
C23_NoInterference ==
    Loaded => \A t \in Callers : pc[t] = "done" => frame[t].ids = Alone(t).ids

\* two fused calls with different queries have both returned, with
\* different non-empty lists
C23_Witness ==
    /\ Loaded
    /\ \A t \in Callers : pc[t] = "done" /\ frame[t].use_bm25 /\ frame[t].ids # <<>>
    /\ frame["c1"].args.query # frame["c2"].args.query
    /\ frame["c1"].ids # frame["c2"].ids

\* C24: with concurrent id_search(use_bm25 = true) calls on an instance whose
\* lexical index is not loaded, the index file is loaded at most once, and no
\* call runs its lexical search while another call is loading the index.
C24_LoadOnceNoRace ==
    /\ loads <= 1
    /\ \A t \in Callers : ~frame[t].raced

IsFlowSearch == search.op = "search_book_content"

\* the book a chunk was read from
BookOf(cid) == Chunks[cid].slug

\* C27: search_book_content returns only chunks of the requested book: with
\* two ingested books of distinct slugs, no chunk of the one is in the result
\* of a search on the other.
C27_OnlyRequestedBook ==
    (IsFlowSearch /\ search.books = Slugs) =>
        \A i \in 1..Len(search.result.chunk_ids) :
            BookOf(search.result.chunk_ids[i]) = search.args.book_identifier

\* C28: search_book_content always returns a result record: at most limit
\* chunks, all of them among the ids id_search(query, topk = limit * 3)
\* returned, num_results == len(chunks) == len(chunk_ids); an unknown book or
\* an exception gives num_results = 0, empty lists and an error field.
C28_ResultRecord ==
    IsFlowSearch =>
        LET r == search.result IN
        /\ Len(r.chunk_ids) <= search.args.limit
        /\ Range(r.chunk_ids) \subseteq Range(search.found)
        /\ r.num_results = Len(r.chunks) /\ r.num_results = Len(r.chunk_ids)
        /\ \A i \in 1..Len(r.chunks) : r.chunks[i].id = r.chunk_ids[i]
        /\ (\/ search.args.book_identifier \notin search.books
            \/ search.fail # "none"
            \/ VecSearchRaises(vec)) =>
               (r.num_results = 0 /\ r.chunk_ids = <<>> /\ r.chunks = <<>> /\ r.error # "none")

\* id_search found more chunks of the book than limit: the result holds limit of them
C28_Witness ==
    /\ IsFlowSearch /\ search.result.error = "none"
    /\ search.args.limit = 1
    /\ Cardinality({ i \in 1..Len(search.found) :
                       BookOf(search.found[i]) = search.args.book_identifier }) > 1
    /\ search.result.num_results = 1

IsToolCall == agent.op = "tool_call"

\* the handling issued the rephrased search
Retried == IsToolCall /\ Len(agent.calls) = 2

\* C25: each search_book tool call is retried at most once: the rephrased
\* search is issued only when the parsed count of the first result is
\* exactly 0, once, with only the query argument changed, and whatever it
\* returns no further call follows.
C25_RetryAtMostOnce ==
    IsToolCall =>
        /\ Len(agent.calls) \in {1, 2}
        /\ Retried =>
              /\ agent.function_name = "search_book"
              /\ extract_search_results_count(agent.answers[1].text) = 0
              /\ agent.calls[2].query = agent.rephrased_query
              /\ agent.calls[2].book_identifier = agent.calls[1].book_identifier
              /\ agent.calls[2].limit = agent.calls[1].limit

\* a retry with another query that found nothing either
C25_Witness ==
    /\ Retried
    /\ agent.calls[2].query # agent.calls[1].query
    /\ extract_search_results_count(agent.answers[2].text) = 0

\* the server answered call i of the handling with n passages
Served(i) == agent.answers[i].served /\ agent.answers[i].result.error = "none"

\* C26: when the original search returns no results and the rephrased
\* search returns passages, the tool message is the retry's result with the
\* citation reminder and the query is not marked fallback-to-context; the
\* zero-result text is kept only when the retry found nothing either.
C26_RetryResultUsed ==
    (Retried /\ Served(1) /\ agent.answers[1].result.num_results = 0) =>
        /\ (Served(2) /\ agent.answers[2].result.num_results > 0) =>
              /\ agent.tool_content = agent.answers[2].text \o CitationReminder
              /\ ~agent.fallback_to_context
        /\ agent.tool_content = agent.answers[1].text =>
              ~(Served(2) /\ agent.answers[2].result.num_results > 0)

\* the session whose handler ran last
Last == ingest.of[ingest.session]

\* C29: deleting a book takes two steps.  delete_book is called only by
\* confirm_delete, with the pending slug of the session, and a pending slug
\* is only ever stored by a request that found it in the library; after
\* every confirm the pending slug is None and the button hidden, so a
\* confirm that follows without a new request deletes nothing and reports
\* that no deletion is pending.
C29_TwoStepDelete ==
    [][ /\ ingest'.deleted.some =>
              /\ ingest'.op = "confirm_delete"
              /\ ingest.of[ingest'.session].pending = ingest'.deleted
        /\ ingest'.library # ingest.library =>
              ingest'.op = "ingest_book" \/ ingest'.deleted.some
        /\ \A s \in Sessions :
              (ingest'.of[s].pending.some /\ ingest'.of[s].pending # ingest.of[s].pending) =>
                  /\ ingest'.op = "request_delete_confirmation"
                  /\ ingest'.session = s
                  /\ ingest'.of[s].pending.slug \in ingest.library
                  /\ ingest'.of[s].pending.slug = Lower(Strip(ingest'.of[s].input))
        /\ ingest'.op = "confirm_delete" =>
              /\ ~ingest'.of[ingest'.session].pending.some
              /\ ~ingest'.of[ingest'.session].visible
        /\ (ingest.op = "confirm_delete" /\ ingest'.op = "confirm_delete"
               /\ ingest'.session = ingest.session) =>
              /\ ~ingest'.deleted.some
              /\ ingest'.library = ingest.library
              /\ ingest'.of[ingest'.session].output = "[ERROR] No deletion pending"
      ]_vars

\* a confirm that deleted the book its session had pending
C29_Witness ==
    /\ ingest.op = "confirm_delete"
    /\ ingest.deleted = Pending(<<"a", "b">>)
    /\ <<"a", "b">> \notin ingest.library
    /\ ~Last.pending.some

\* the last bot response of the history submit_feedback was given
LastResponse == chat.chat_history[chat.session][Len(chat.chat_history[chat.session])]

\* C30: submit_feedback records the rating against the query of the last
\* bot response of the chat history it is given, however respond and
\* submit_feedback of the sessions interleave and after a conversation is
\* cleared: never against a query of another session or of an earlier
\* conversation.
C30_FeedbackOnOwnQuery ==
    (chat.op = "submit_feedback" /\ chat.feedback # NoFeedback) =>
        /\ chat.chat_history[chat.session] # <<>>
        /\ chat.feedback.query_id = LastResponse
        /\ chat.feedback.query_id \notin chat.cleared

====
